---- MODULE Spec2Model ----
(***************************************************************************)
(* State-machine model of src/lib/i18n-compile.ts: the translation         *)
(* compiler compileI18n and the helpers it is built from.                  *)
(*                                                                         *)
(* Abstractions:                                                           *)
(*   - a key/value mapping (a JavaScript object) is a TLA+ function; the   *)
(*     insertion order of its keys is not modelled;                        *)
(*   - a path join(cwd, dir, feature, locale + '.properties') is the tuple *)
(*     <<cwd, dir, feature, locale>>;                                      *)
(*   - the libraries (properties, intl-messageformat-parser, lodash        *)
(*     camelCase, String.split) are tables over the strings used here;     *)
(*   - a generated file is the record of what its text declares.           *)
(***************************************************************************)
EXTENDS Integers, Sequences, FiniteSets, TLC

\* Bounds of the model.
MaxRuns == 2
MaxElements == 3

VARIABLES
  pkgs,                \* node_modules/<dep>/package.json, per dependency
  files,               \* translation files on disk, per path
  i18n,                \* project.ws.i18n
  entryExtension,      \* project.ws.entryExtension
  pc,                  \* position of compileI18n
  run,                 \* number of the current (or last) compileI18n call
  depsPending,         \* manifest reads of line 241 not yet completed
  translatedModules,   \* the array of line 232
  readsPending,        \* indices of readPromises (line 259) not yet settled
  parsedTranslations,  \* the array of line 275
  removed,             \* line 284 has completed in the current run
  failCause,           \* what rejected the current run
  inflight,            \* writes issued and not yet completed
  outDir,              \* files under i18n.distDir
  prevOutput,          \* content of outDir when the last successful run ended
  elements,            \* elements of the tree handed to getArgumentTypes
  argumentTypes,       \* its result
  inferred             \* getArgumentTypes has been applied to elements

vars == <<pkgs, files, i18n, entryExtension, pc, run, depsPending,
          translatedModules, readsPending, parsedTranslations, removed,
          failCause, inflight, outDir, prevOutput, elements, argumentTypes,
          inferred>>

inputVars == <<pkgs, files, i18n, entryExtension>>
typeVars == <<elements, argumentTypes, inferred>>

----------------------------------------------------------------------------
\* Generic helpers.

EmptyMap == [k \in {} |-> ""]

RECURSIVE Join(_, _)
\* Array.prototype.join
Join(strs, sep) ==
  IF Len(strs) = 0 THEN ""
  ELSE IF Len(strs) = 1 THEN strs[1]
  ELSE strs[1] \o sep \o Join(Tail(strs), sep)

RECURSIVE Reverse(_)
\* Array.prototype.reverse
Reverse(s) == IF s = <<>> THEN <<>> ELSE Append(Reverse(Tail(s)), Head(s))

\* Object.assign(acc, src): the keys of src overwrite those of acc
ObjectAssign(acc, src) ==
  [k \in DOMAIN acc \cup DOMAIN src |-> IF k \in DOMAIN src THEN src[k] ELSE acc[k]]

\* lodash camelCase, over the raw keys of the translation files of the model
camelCase(key) ==
  CASE key = "Greeting" -> "greeting"
    [] key = "item-count" -> "itemCount"
    [] OTHER -> key

\* locale.split('_')
SplitUnderscore(locale) ==
  CASE locale = "de_DE" -> <<"de", "DE">>
    [] locale = "en_GB" -> <<"en", "GB">>
    [] OTHER -> <<locale>>

----------------------------------------------------------------------------
\* Message syntax trees (intl-messageformat-parser).

\* element.format === null
NoFormat == [type |-> "none", options |-> <<>>]

PluralFormat ==
  [type |-> "pluralFormat",
   options |-> <<[selector |-> "one"], [selector |-> "other"]>>]

SelectFormat(selectors) ==
  [type |-> "selectFormat",
   options |-> [n \in 1..Len(selectors) |-> [selector |-> selectors[n]]]]

NumberFormat == [type |-> "numberFormat", options |-> <<>>]

TextElement(value) ==
  [type |-> "messageTextElement", id |-> "", value |-> value, format |-> NoFormat]

ArgumentElement(id, format) ==
  [type |-> "argumentElement", id |-> id, value |-> "", format |-> format]

\* the value of asts[key] for a key asts does not hold
Undefined == [type |-> "undefined", elements |-> <<>>]

\* parser.parse(message) throws
ParseThrows(message) == message = "{"

\* parser.parse(message), for the messages of the translation files of the model
ParseMessage(message) ==
  [type |-> "messageFormatPattern",
   elements |->
     CASE message = "hey {name}" ->
            <<TextElement("hey "), ArgumentElement("name", NoFormat)>>
       [] message = "{n, plural, one {# item} other {# items}}" ->
            <<ArgumentElement("n", PluralFormat)>>
       [] message = "" -> <<>>
       [] OTHER -> <<TextElement(message)>>]

----------------------------------------------------------------------------
\* The pure helpers of i18n-compile.ts.

\* camelCaseKeys(data): acc[camelCase(key)] = data[key] for every key
camelCaseKeys(data) ==
  [ck \in {camelCase(k) : k \in DOMAIN data} |->
     data[CHOOSE k \in DOMAIN data : camelCase(k) = ck]]

IsArgumentElement(element) == element.type = "argumentElement"

\* hasArguments(ast): truthy iff ast is defined and has an argument element
hasArguments(ast) ==
  /\ ast # Undefined
  /\ Len(ast.elements) # 0
  /\ Len(SelectSeq(ast.elements, IsArgumentElement)) # 0

\* ElementType without the plural case
MutElementType(element) ==
  IF element.format # NoFormat /\ element.format.type = "selectFormat"
  THEN Join([n \in 1..Len(element.format.options) |->
               IF element.format.options[n].selector = "other"
               THEN "string"
               ELSE "'" \o element.format.options[n].selector \o "'"], " | ")
  ELSE "string"

\* the type expression of lines 82-87 for one argument element
ElementType(element) ==
  IF element.format # NoFormat /\ element.format.type = "pluralFormat"
  THEN "number"
  ELSE IF element.format # NoFormat /\ element.format.type = "selectFormat"
  THEN Join([n \in 1..Len(element.format.options) |->
               IF element.format.options[n].selector = "other"
               THEN "string"
               ELSE "'" \o element.format.options[n].selector \o "'"], " | ")
  ELSE "string"

RECURSIVE uniqByKey(_)
\* lodash uniqBy(pairs, 'key'): the first pair of every key, in order
uniqByKey(pairs) ==
  IF pairs = <<>> THEN <<>>
  ELSE LET init == SubSeq(pairs, 1, Len(pairs) - 1)
           last == pairs[Len(pairs)]
       IN IF \E n \in 1..Len(init) : init[n].key = last.key
          THEN uniqByKey(init)
          ELSE Append(uniqByKey(init), last)

getArgumentTypes(ast) ==
  LET args == SelectSeq(ast.elements, IsArgumentElement)
      keyTypePairs ==
        uniqByKey([n \in 1..Len(args) |->
                     [key |-> args[n].id, type |-> ElementType(args[n])]])
  IN IF Len(keyTypePairs) # 0
     THEN "{ " \o Join([n \in 1..Len(keyTypePairs) |->
                          keyTypePairs[n].key \o ": " \o keyTypePairs[n].type],
                       ", ") \o " }"
     ELSE ""

getArgument(ast, hasTypes) ==
  IF hasArguments(ast)
  THEN IF hasTypes THEN "data" \o getArgumentTypes(ast) ELSE "data"
  ELSE ""

\* asts[key], Undefined when asts has no such key
AstOf(asts, key) == IF key \in DOMAIN asts THEN asts[key] ELSE Undefined

\* getDocumentation(translations, key): one line per locale
getDocumentation(translations, key) ==
  [n \in 1..Len(translations) |->
     translations[n].locale \o ": " \o
       (IF key \in DOMAIN translations[n].data
        THEN translations[n].data[key] ELSE "undefined")]

----------------------------------------------------------------------------
\* ../lib/i18n

RECURSIVE uniq(_)
uniq(s) ==
  IF s = <<>> THEN <<>>
  ELSE LET init == SubSeq(s, 1, Len(s) - 1)
       IN IF \E n \in 1..Len(init) : init[n] = s[Len(s)]
          THEN uniq(init) ELSE Append(uniq(init), s[Len(s)])

\* concatLanguages(locales): the locales, then the language of each
concatLanguages(locales) ==
  locales \o uniq([n \in 1..Len(locales) |-> SplitUnderscore(locales[n])[1]])

\* isMatchingLocaleOrLanguage(localeOrLanguage, locale)
isMatchingLocaleOrLanguage(localeOrLanguage, locale) ==
  \/ localeOrLanguage = locale
  \/ localeOrLanguage = SplitUnderscore(locale)[1]

----------------------------------------------------------------------------
\* The inputs of a compile: dependency manifests, translation files and the
\* project configuration.

\* globby('node_modules/**/package.json')
Deps == <<"A", "B">>

DepSet == {Deps[n] : n \in 1..Len(Deps)}

\* dirname(dep)
DirnameOf(dep) == "node_modules/" \o dep

\* an optional features array of a configuration block
NoFeatures == [defined |-> FALSE, list |-> <<>>]

\* a package.json with a ws.i18n block
I18nManifest(dir, locales) ==
  [code |-> "OK", hasI18n |-> TRUE, dir |-> dir, features |-> NoFeatures,
   locales |-> locales]

\* a package.json without one
PlainManifest ==
  [code |-> "OK", hasI18n |-> FALSE, dir |-> "", features |-> NoFeatures,
   locales |-> <<>>]

\* a package.json readJsonAsync rejects
BrokenManifest ==
  [code |-> "EJSON", hasI18n |-> FALSE, dir |-> "", features |-> NoFeatures,
   locales |-> <<>>]

\* a translation file holding the properties props
PropertiesFile(props) == [code |-> "OK", props |-> props]

\* a translation file that cannot be read, with the error's code
UnreadableFile(code) == [code |-> code, props |-> EmptyMap]

PluralMessage == "{n, plural, one {# item} other {# items}}"

\* readFileAsync(readPath, 'utf8').then(parse): the file, ENOENT when absent
readFileAsync(readPath) ==
  IF readPath \in DOMAIN files THEN files[readPath] ELSE UnreadableFile("ENOENT")

\* readTranslation: swallows every rejection, also the ones that are not ENOENT
MutReadTranslation(cwd, dir, locale, feature) ==
  LET file == readFileAsync(<<cwd, dir, feature, locale>>)
  IN [rejected |-> FALSE, err |-> "",
      value |-> [locale |-> locale, data |-> camelCaseKeys(file.props)]]

\* readTranslation(cwd, dir, locale, feature): how its promise settles
readTranslation(cwd, dir, locale, feature) ==
  LET readPath == <<cwd, dir, feature, locale>>
      file == readFileAsync(readPath)
  IN IF file.code = "OK"
     THEN [rejected |-> FALSE, err |-> "",
           value |-> [locale |-> locale, data |-> camelCaseKeys(file.props)]]
     ELSE IF file.code = "ENOENT"
     THEN [rejected |-> FALSE, err |-> "",
           value |-> [locale |-> locale, data |-> camelCaseKeys(EmptyMap)]]
     ELSE [rejected |-> TRUE, err |-> file.code,
           value |-> [locale |-> locale, data |-> EmptyMap]]

----------------------------------------------------------------------------
\* compileI18n, lines 232-282: discovery, loading, merging, parsing.

\* features || ['']
FeaturesOrDefault(features) == IF features.defined THEN features.list ELSE <<"">>

\* the entry pushed for a dependency (lines 243-248)
DepModule(dep) ==
  [cwd |-> DirnameOf(dep),
   dir |-> IF pkgs[dep].dir # "" THEN pkgs[dep].dir ELSE "i18n",
   features |-> FeaturesOrDefault(pkgs[dep].features),
   localesAndLanguages |-> concatLanguages(pkgs[dep].locales)]

\* the entry pushed for the local project (lines 252-257)
LocalModule ==
  [cwd |-> ".",
   dir |-> i18n.dir,
   features |-> FeaturesOrDefault(i18n.features),
   localesAndLanguages |-> concatLanguages(i18n.locales)]

RECURSIVE Flatten(_)
Flatten(seqs) == IF seqs = <<>> THEN <<>> ELSE Head(seqs) \o Flatten(Tail(seqs))

\* the arguments of the readTranslation calls of lines 260-262, in push order
ReadRequests(modules) ==
  Flatten([m \in 1..Len(modules) |->
    Flatten([f \in 1..Len(modules[m].features) |->
      [l \in 1..Len(modules[m].localesAndLanguages) |->
         [cwd |-> modules[m].cwd, dir |-> modules[m].dir,
          locale |-> modules[m].localesAndLanguages[l],
          feature |-> modules[m].features[f]]]])])

\* how the n-th promise of readPromises settles
ReadResult(request) ==
  readTranslation(request.cwd, request.dir, request.locale, request.feature)

\* the array Promise.all(readPromises) resolves to (line 263)
TranslationsOf(modules) ==
  LET requests == ReadRequests(modules)
  IN [n \in 1..Len(requests) |-> ReadResult(requests[n]).value]

RECURSIVE ReduceAssign(_, _)
\* translations.reduce((acc, t) => Object.assign(acc, t.data), acc)
ReduceAssign(acc, translations) ==
  IF translations = <<>> THEN acc
  ELSE ReduceAssign(ObjectAssign(acc, Head(translations).data), Tail(translations))

\* groupedTranslations (lines 265-268)
GroupedTranslations(translations) ==
  [n \in 1..Len(i18n.locales) |->
     [locale |-> i18n.locales[n],
      translations |->
        SelectSeq(translations,
                  LAMBDA t : isMatchingLocaleOrLanguage(t.locale, i18n.locales[n]))]]

\* mergedTranslations (lines 270-273)
MergedTranslations(translations) ==
  LET grouped == GroupedTranslations(translations)
  IN [n \in 1..Len(grouped) |->
        [locale |-> grouped[n].locale,
         data |-> ReduceAssign(EmptyMap, Reverse(grouped[n].translations))]]

\* parser.parse throws for some merged message (line 278)
ParseFails(merged) ==
  \E n \in 1..Len(merged) : \E key \in DOMAIN merged[n].data :
     ParseThrows(merged[n].data[key])

\* parsedTranslations (lines 275-282)
ParsedTranslations(merged) ==
  [n \in 1..Len(merged) |->
     [locale |-> merged[n].locale,
      data |-> merged[n].data,
      asts |-> [key \in DOMAIN merged[n].data |-> ParseMessage(merged[n].data[key])]]]

----------------------------------------------------------------------------
\* Emission: what the three writers put into their file.

\* EmittedFunction without the test for a missing tree
MutEmittedFunction(key, ast) ==
  [param |-> IF hasArguments(ast) THEN "data" ELSE "",
   kind |-> "format",
   ast |-> ast,
   returns |-> "",
   doc |-> <<>>]

\* the function emitted for a key whose tree is ast (lines 141-149, 177-185)
EmittedFunction(key, ast) ==
  [param |-> IF hasArguments(ast) THEN "data" ELSE "",
   kind |-> IF ast # Undefined THEN "format" ELSE "missing",
   ast |-> ast,
   returns |-> IF ast # Undefined THEN "" ELSE "Missing key \"" \o key \o "\".",
   doc |-> <<>>]

\* the declaration emitted for a key (lines 219-221)
DeclaredFunction(translations, key) ==
  [param |-> IF hasArguments(AstOf(translations[1].asts, key)) THEN "data" ELSE "",
   kind |-> "declare",
   ast |-> Undefined,
   returns |-> "string",
   doc |-> getDocumentation(translations, key)]

\* split('_')[1], 'undefined' in the template when there is no second part
CountryCode(locale) ==
  IF Len(SplitUnderscore(locale)) >= 2 THEN SplitUnderscore(locale)[2] ELSE "undefined"

\* writeTranslation with the keys of the translation itself
MutWriteTranslation(defaultTranslation, translation) ==
  [name |-> translation.locale \o ".js",
   style |-> "commonjs",
   LOCALE |-> translation.locale,
   LANGUAGE_CODE |-> SplitUnderscore(translation.locale)[1],
   COUNTRY_CODE |-> CountryCode(translation.locale),
   fns |-> [key \in DOMAIN translation.data |->
              EmittedFunction(key, AstOf(translation.asts, key))]]

\* writeTranslation(defaultTranslation, translation): the file it outputs
writeTranslation(defaultTranslation, translation) ==
  [name |-> translation.locale \o ".js",
   style |-> "commonjs",
   LOCALE |-> translation.locale,
   LANGUAGE_CODE |-> SplitUnderscore(translation.locale)[1],
   COUNTRY_CODE |-> CountryCode(translation.locale),
   fns |-> [key \in DOMAIN defaultTranslation.data |->
              EmittedFunction(key, AstOf(translation.asts, key))]]

\* writeTranslationUnit(translation): the file it outputs
writeTranslationUnit(translation) ==
  [name |-> "unit.js",
   style |-> "esm",
   LOCALE |-> translation.locale,
   LANGUAGE_CODE |-> SplitUnderscore(translation.locale)[1],
   COUNTRY_CODE |-> CountryCode(translation.locale),
   fns |-> [key \in DOMAIN translation.data |->
              EmittedFunction(key, AstOf(translation.asts, key))]]

\* writeDeclaration(translations): the file it outputs
writeDeclaration(translations) ==
  [name |-> "index.d.ts",
   style |-> "declaration",
   LOCALE |-> "",
   LANGUAGE_CODE |-> "",
   COUNTRY_CODE |-> "",
   fns |-> [key \in DOMAIN translations[1].data |->
              DeclaredFunction(translations, key)]]

\* a write in flight, or a file on disk: the content and the run that issued it
ByRun(content, r) == [run |-> r, file |-> content]

\* outputFileAsync completes: the file replaces the one of the same name
OutputFile(dir, write) ==
  {f \in dir : f.file.name # write.file.name} \cup {write}

\* the writes of the current run still in flight
CurrentWrites == {w \in inflight : w.run = run}

\* the files of a directory, without the run that wrote them
ContentOf(dir) == {f.file : f \in dir}

----------------------------------------------------------------------------
\* Initial states: the inputs are drawn from small sets, no compile has run.

PathOf(cwd, locale) == <<cwd, "i18n", "", locale>>

ManifestChoices ==
  {I18nManifest("i18n", <<"de_DE">>), PlainManifest, BrokenManifest}

DepFileChoices ==
  {PropertiesFile("greeting" :> "hello"), UnreadableFile("EIO")}

LocalFileChoices ==
  {UnreadableFile("ENOENT"),
   PropertiesFile("greeting" :> "hey {name}" @@ "item-count" :> PluralMessage),
   PropertiesFile("broken" :> "{")}

LanguageFileChoices == {PropertiesFile("farewell" :> "tschuess")}

SecondLocaleFileChoices ==
  {UnreadableFile("ENOENT"),
   PropertiesFile("greeting" :> "hey {name}" @@ "welcome" :> "hi there")}

LocalesChoices == {<<"de_DE">>, <<"de_DE", "en_GB">>}

\* a module an earlier build left in the output directory
LeftoverFile ==
  [name |-> "fr_FR.js",
   style |-> "commonjs",
   LOCALE |-> "fr_FR",
   LANGUAGE_CODE |-> "fr",
   COUNTRY_CODE |-> "FR",
   fns |-> "bonjour" :> EmittedFunction("bonjour", ParseMessage("bonjour"))]

InitCompile ==
  /\ pc = "idle"
  /\ run = 0
  /\ depsPending = {}
  /\ translatedModules = <<>>
  /\ readsPending = {}
  /\ parsedTranslations = <<>>
  /\ removed = FALSE
  /\ failCause = "none"
  /\ inflight = {}
  /\ outDir = {ByRun(LeftoverFile, 0)}
  /\ prevOutput = {}

InitTypes ==
  /\ elements = <<>>
  /\ argumentTypes = ""
  /\ inferred = FALSE

InitInputs ==
  /\ \E manifestB \in ManifestChoices :
       pkgs = [dep \in DepSet |->
                 IF dep = "A" THEN I18nManifest("", <<"de_DE">>) ELSE manifestB]
  /\ \E locales \in LocalesChoices :
       i18n = [dir |-> "i18n", features |-> NoFeatures, locales |-> locales,
               distDir |-> "dist-i18n", module |-> "mercateo/i18n"]
  /\ entryExtension \in {"js", "ts"}
  /\ \E fileB \in DepFileChoices, fileL \in LocalFileChoices,
        fileLang \in LanguageFileChoices, fileSecond \in SecondLocaleFileChoices :
       /\ pkgs["B"].hasI18n \/ fileB = UnreadableFile("EIO")
       /\ Len(i18n.locales) > 1 \/ fileSecond = UnreadableFile("ENOENT")
       /\ files = PathOf(DirnameOf("A"), "de_DE") :> PropertiesFile("Greeting" :> "hi")
                  @@ PathOf(DirnameOf("B"), "de_DE") :> fileB
                  @@ PathOf(".", "de_DE") :> fileL
                  @@ PathOf(".", "de") :> fileLang
                  @@ PathOf(".", "en_GB") :> fileSecond

Init == InitInputs /\ InitCompile /\ InitTypes

----------------------------------------------------------------------------
\* compileI18n as a state machine.

\* StartRun with the output directory removed first
MutStartRun ==
  /\ pc \in {"idle", "done", "failed"}
  /\ run < MaxRuns
  /\ run' = run + 1
  /\ pc' = "deps"
  /\ depsPending' = DepSet
  /\ translatedModules' = <<>>
  /\ readsPending' = {}
  /\ parsedTranslations' = <<>>
  /\ removed' = TRUE
  /\ failCause' = "none"
  /\ prevOutput' = IF pc = "done" THEN ContentOf(outDir) ELSE prevOutput
  /\ outDir' = {}
  /\ UNCHANGED <<inflight, inputVars, typeVars>>

\* compileI18n is called (lines 228-241): the manifest reads are issued
StartRun ==
  /\ pc \in {"idle", "done", "failed"}
  /\ run < MaxRuns
  /\ run' = run + 1
  /\ pc' = "deps"
  /\ depsPending' = DepSet
  /\ translatedModules' = <<>>
  /\ readsPending' = {}
  /\ parsedTranslations' = <<>>
  /\ removed' = FALSE
  /\ failCause' = "none"
  /\ prevOutput' = IF pc = "done" THEN ContentOf(outDir) ELSE prevOutput
  /\ UNCHANGED <<inflight, outDir, inputVars, typeVars>>

\* readJsonAsync(dep) rejects: Promise.all of line 241 rejects, and the compile
ManifestRejected(dep) ==
  /\ pc = "deps"
  /\ dep \in depsPending
  /\ pkgs[dep].code # "OK"
  /\ pc' = "failed"
  /\ failCause' = "manifest"
  /\ depsPending' = {}
  /\ UNCHANGED <<run, translatedModules, readsPending, parsedTranslations,
                 removed, inflight, outDir, prevOutput, inputVars, typeVars>>

\* readJsonAsync(dep) resolves and its callback runs (lines 241-250); after the
\* last one the local project is pushed and the reads are issued (lines 252-262)
ManifestRead(dep) ==
  /\ pc = "deps"
  /\ dep \in depsPending
  /\ pkgs[dep].code = "OK"
  /\ LET pushed == IF pkgs[dep].hasI18n
                   THEN Append(translatedModules, DepModule(dep))
                   ELSE translatedModules
     IN IF depsPending = {dep}
        THEN /\ translatedModules' = Append(pushed, LocalModule)
             /\ readsPending' = 1..Len(ReadRequests(translatedModules'))
             /\ pc' = "reads"
        ELSE /\ translatedModules' = pushed
             /\ UNCHANGED <<readsPending, pc>>
  /\ depsPending' = depsPending \ {dep}
  /\ UNCHANGED <<run, parsedTranslations, removed, failCause, inflight, outDir,
                 prevOutput, inputVars, typeVars>>

\* the n-th readTranslation rejects: Promise.all of line 263 rejects
ReadRejected(n) ==
  /\ pc = "reads"
  /\ n \in readsPending
  /\ ReadResult(ReadRequests(translatedModules)[n]).rejected
  /\ pc' = "failed"
  /\ failCause' = "read"
  /\ readsPending' = {}
  /\ UNCHANGED <<run, depsPending, translatedModules, parsedTranslations,
                 removed, inflight, outDir, prevOutput, inputVars, typeVars>>

\* the n-th readTranslation resolves, others are pending
ReadResolved(n) ==
  /\ pc = "reads"
  /\ n \in readsPending
  /\ readsPending # {n}
  /\ ~ReadResult(ReadRequests(translatedModules)[n]).rejected
  /\ readsPending' = readsPending \ {n}
  /\ UNCHANGED <<pc, run, depsPending, translatedModules, parsedTranslations,
                 removed, failCause, inflight, outDir, prevOutput, inputVars,
                 typeVars>>

\* the last readTranslation resolves, and a merged message does not parse:
\* line 278 throws
ParseRejected(n) ==
  /\ pc = "reads"
  /\ readsPending = {n}
  /\ ~ReadResult(ReadRequests(translatedModules)[n]).rejected
  /\ ParseFails(MergedTranslations(TranslationsOf(translatedModules)))
  /\ readsPending' = {}
  /\ pc' = "failed"
  /\ failCause' = "parse"
  /\ UNCHANGED <<run, depsPending, translatedModules, parsedTranslations,
                 removed, inflight, outDir, prevOutput, inputVars, typeVars>>

\* the last readTranslation resolves: lines 263-284, up to the call of removeAsync
ReadAll(n) ==
  /\ pc = "reads"
  /\ readsPending = {n}
  /\ ~ReadResult(ReadRequests(translatedModules)[n]).rejected
  /\ LET merged == MergedTranslations(TranslationsOf(translatedModules))
     IN /\ ~ParseFails(merged)
        /\ parsedTranslations' = ParsedTranslations(merged)
  /\ readsPending' = {}
  /\ pc' = "remove"
  /\ UNCHANGED <<run, depsPending, translatedModules, removed, failCause,
                 inflight, outDir, prevOutput, inputVars, typeVars>>

\* removeAsync(i18n.distDir) completes; the per-locale writes are issued (line 285)
Remove ==
  /\ pc = "remove"
  /\ outDir' = {}
  /\ removed' = TRUE
  /\ inflight' = inflight \cup
       {ByRun(writeTranslation(parsedTranslations[1], parsedTranslations[n]), run) :
          n \in 1..Len(parsedTranslations)}
  /\ pc' = "writes"
  /\ UNCHANGED <<run, depsPending, translatedModules, readsPending,
                 parsedTranslations, failCause, prevOutput, inputVars, typeVars>>

\* a writeTranslation of line 285 completes; after the last one the unit module
\* is written (line 286)
WriteTranslationDone(w) ==
  /\ pc = "writes"
  /\ w \in CurrentWrites
  /\ outDir' = OutputFile(outDir, w)
  /\ IF CurrentWrites = {w}
     THEN /\ inflight' = (inflight \ {w}) \cup
                           {ByRun(writeTranslationUnit(parsedTranslations[1]), run)}
          /\ pc' = "unit"
     ELSE /\ inflight' = inflight \ {w}
          /\ pc' = pc
  /\ UNCHANGED <<run, depsPending, translatedModules, readsPending,
                 parsedTranslations, removed, failCause, prevOutput, inputVars,
                 typeVars>>

\* writeTranslationUnit completes; the declaration is written unless the entry
\* extension is 'js' (lines 288-290)
WriteUnitDone(w) ==
  /\ pc = "unit"
  /\ w \in CurrentWrites
  /\ outDir' = OutputFile(outDir, w)
  /\ IF entryExtension # "js"
     THEN /\ inflight' = (inflight \ {w}) \cup
                           {ByRun(writeDeclaration(parsedTranslations), run)}
          /\ pc' = "decl"
     ELSE /\ inflight' = inflight \ {w}
          /\ pc' = "done"
  /\ UNCHANGED <<run, depsPending, translatedModules, readsPending,
                 parsedTranslations, removed, failCause, prevOutput, inputVars,
                 typeVars>>

\* writeDeclaration completes: compileI18n resolves
WriteDeclarationDone(w) ==
  /\ pc = "decl"
  /\ w \in CurrentWrites
  /\ outDir' = OutputFile(outDir, w)
  /\ inflight' = inflight \ {w}
  /\ pc' = "done"
  /\ UNCHANGED <<run, depsPending, translatedModules, readsPending,
                 parsedTranslations, removed, failCause, prevOutput, inputVars,
                 typeVars>>

\* a write the compile awaits rejects: compileI18n rejects; the other writes of
\* Promise.all (line 285) stay in flight
WriteRejected(w) ==
  /\ pc \in {"writes", "unit", "decl"}
  /\ w \in CurrentWrites
  /\ inflight' = inflight \ {w}
  /\ pc' = "failed"
  /\ failCause' = "write"
  /\ UNCHANGED <<run, depsPending, translatedModules, readsPending,
                 parsedTranslations, removed, outDir, prevOutput, inputVars,
                 typeVars>>

\* a write that no compile awaits any more (its Promise.all has rejected)
Abandoned(w) ==
  /\ w \in inflight
  /\ ~(w.run = run /\ pc \in {"writes", "unit", "decl"})

\* an abandoned write completes
AbandonedWriteDone(w) ==
  /\ Abandoned(w)
  /\ outDir' = OutputFile(outDir, w)
  /\ inflight' = inflight \ {w}
  /\ UNCHANGED <<pc, run, depsPending, translatedModules, readsPending,
                 parsedTranslations, removed, failCause, prevOutput, inputVars,
                 typeVars>>

\* an abandoned write rejects
AbandonedWriteRejected(w) ==
  /\ Abandoned(w)
  /\ inflight' = inflight \ {w}
  /\ UNCHANGED <<pc, run, depsPending, translatedModules, readsPending,
                 parsedTranslations, removed, failCause, outDir, prevOutput,
                 inputVars, typeVars>>

Next ==
  \/ StartRun
  \/ \E dep \in DepSet : ManifestRejected(dep)
  \/ \E dep \in DepSet : ManifestRead(dep)
  \/ \E n \in readsPending : ReadRejected(n)
  \/ \E n \in readsPending : ReadResolved(n)
  \/ \E n \in readsPending : ParseRejected(n)
  \/ \E n \in readsPending : ReadAll(n)
  \/ Remove
  \/ \E w \in inflight : WriteTranslationDone(w)
  \/ \E w \in inflight : WriteUnitDone(w)
  \/ \E w \in inflight : WriteDeclarationDone(w)
  \/ \E w \in inflight : WriteRejected(w)
  \/ \E w \in inflight : AbandonedWriteDone(w)
  \/ \E w \in inflight : AbandonedWriteRejected(w)

Spec == Init /\ [][Next]_vars

----------------------------------------------------------------------------
\* getArgumentTypes on its own: a tree is built element by element, then the
\* function is applied to it.

ElementChoices ==
  {TextElement("x"),
   ArgumentElement("n", NoFormat),
   ArgumentElement("n", PluralFormat),
   ArgumentElement("n", NumberFormat),
   ArgumentElement("g", NoFormat),
   ArgumentElement("g", SelectFormat(<<"male", "female", "other">>)),
   ArgumentElement("g", SelectFormat(<<"other", "yes">>))}

AppendElement(element) ==
  /\ ~inferred
  /\ Len(elements) < MaxElements
  /\ elements' = Append(elements, element)
  /\ UNCHANGED <<argumentTypes, inferred, inputVars, pc, run, depsPending,
                 translatedModules, readsPending, parsedTranslations, removed,
                 failCause, inflight, outDir, prevOutput>>

InferArgumentTypes ==
  /\ ~inferred
  /\ argumentTypes' =
       getArgumentTypes([type |-> "messageFormatPattern", elements |-> elements])
  /\ inferred' = TRUE
  /\ UNCHANGED <<elements, inputVars, pc, run, depsPending, translatedModules,
                 readsPending, parsedTranslations, removed, failCause, inflight,
                 outDir, prevOutput>>

InitArgumentTypes ==
  /\ pkgs = [dep \in DepSet |-> PlainManifest]
  /\ i18n = [dir |-> "i18n", features |-> NoFeatures, locales |-> <<"de_DE">>,
             distDir |-> "dist-i18n", module |-> "mercateo/i18n"]
  /\ entryExtension = "ts"
  /\ files = PathOf(".", "de_DE") :> UnreadableFile("ENOENT")
  /\ InitCompile
  /\ InitTypes

NextArgumentTypes ==
  \/ \E element \in ElementChoices : AppendElement(element)
  \/ InferArgumentTypes

SpecArgumentTypes == InitArgumentTypes /\ [][NextArgumentTypes]_vars

----------------------------------------------------------------------------
\* Properties.

\* the run has merged and parsed its translations
Merged == pc \in {"remove", "writes", "unit", "decl", "done"}

\* the translations of the current run, in discovery order
Discovered == TranslationsOf(translatedModules)

\* the indices of the discovered translations that match the n-th target locale
\* and define key
Definers(n, key) ==
  {d \in 1..Len(Discovered) :
     /\ isMatchingLocaleOrLanguage(Discovered[d].locale, i18n.locales[n])
     /\ key \in DOMAIN Discovered[d].data}

LastOf(indices) == CHOOSE d \in indices : \A e \in indices : e <= d

FirstOf(indices) == CHOOSE d \in indices : \A e \in indices : d <= e

\* the files the current run has issued: in flight or on disk
IssuedByRun == {f \in inflight \cup outDir : f.run = run}

\* the modules (per locale, unit) among them
ModulesByRun == {f \in IssuedByRun : f.file.style \in {"commonjs", "esm"}}

\* the parsed translation of the current run for a locale
ParsedFor(locale) ==
  parsedTranslations[CHOOSE n \in 1..Len(parsedTranslations) :
                       parsedTranslations[n].locale = locale]

\* C1: for every target locale and key, when the sources that define the key
\* for that locale all do so in a file of the same locale tag, the merged value
\* is the one of the source discovered last (the local project, when it is one
\* of them).
C1_LaterSourceWins ==
  Merged =>
    \A n \in 1..Len(parsedTranslations) :
      \A key \in DOMAIN parsedTranslations[n].data :
        (\A d, e \in Definers(n, key) : Discovered[d].locale = Discovered[e].locale)
          => parsedTranslations[n].data[key] =
               Discovered[LastOf(Definers(n, key))].data[key]

\* C2: a compile that succeeds after an earlier successful compile of the same
\* inputs leaves the same content in the output directory, whatever the order
\* in which the manifest reads and the translation reads completed.
C2_RerunIdentical ==
  (pc = "done" /\ prevOutput # {}) => ContentOf(outDir) = prevOutput

\* C3: after a compile rejected by a read error, a parse error or a write
\* error, the output directory holds no file written by that run.
C3_NoPartialOutput ==
  (pc = "failed" /\ failCause \in {"read", "parse", "write"})
    => \A f \in outDir : f.run # run

\* the names of the files a successful run writes
ExpectedNames ==
  {i18n.locales[n] \o ".js" : n \in 1..Len(i18n.locales)}
    \cup {"unit.js"}
    \cup (IF entryExtension # "js" THEN {"index.d.ts"} ELSE {})

\* C4: the output directory never holds a file of an earlier run together with
\* a file of the current run, and after a successful run it holds exactly the
\* files that run wrote.
C4_NeverMixed ==
  /\ ~(\E f, g \in outDir : f.run < run /\ g.run = run)
  /\ pc = "done" =>
       /\ \A f \in outDir : f.run = run
       /\ {f.file.name : f \in outDir} = ExpectedNames

\* C5: a readTranslation whose file is missing resolves to that locale with an
\* empty data mapping, one whose read fails otherwise rejects with that error;
\* a compile is never rejected by its reads when no file fails otherwise.
C5_MissingFileIsEmpty ==
  /\ \A n \in 1..Len(ReadRequests(translatedModules)) :
       LET request == ReadRequests(translatedModules)[n]
           code == readFileAsync(<<request.cwd, request.dir, request.feature,
                                   request.locale>>).code
           result == ReadResult(request)
       IN /\ code = "ENOENT" =>
               /\ ~result.rejected
               /\ result.value = [locale |-> request.locale, data |-> EmptyMap]
          /\ code \notin {"OK", "ENOENT"} =>
               /\ result.rejected
               /\ result.err = code
  /\ failCause = "read" =>
       \E path \in DOMAIN files : files[path].code \notin {"OK", "ENOENT"}

\* a compile got past its reads although one of the files was missing
C5_Witness ==
  /\ pc = "writes"
  /\ \E n \in 1..Len(ReadRequests(translatedModules)) :
       LET request == ReadRequests(translatedModules)[n]
       IN /\ request.cwd = "."
          /\ readFileAsync(<<request.cwd, request.dir, request.feature,
                             request.locale>>).code = "ENOENT"

ArgumentPositions == {n \in 1..Len(elements) : elements[n].type = "argumentElement"}

\* the placeholder names of the tree
PlaceholderNames == {elements[n].id : n \in ArgumentPositions}

\* the first position at which a placeholder name occurs
FirstPosition(name) == FirstOf({n \in ArgumentPositions : elements[n].id = name})

\* the placeholder names in the order of their first occurrence
NamesInOrder ==
  [r \in 1..Cardinality(PlaceholderNames) |->
     CHOOSE name \in PlaceholderNames :
       Cardinality({other \in PlaceholderNames :
                      FirstPosition(other) <= FirstPosition(name)}) = r]

RECURSIVE SelectorUnion(_)
\* the selectors of a select format as a union: quoted literals, string for other
SelectorUnion(options) ==
  IF options = <<>> THEN ""
  ELSE (IF Head(options).selector = "other" THEN "string"
        ELSE "'" \o Head(options).selector \o "'")
       \o (IF Tail(options) = <<>> THEN "" ELSE " | " \o SelectorUnion(Tail(options)))

\* the type the claim gives a placeholder
ClaimedType(element) ==
  CASE element.format.type = "pluralFormat" -> "number"
    [] element.format.type = "selectFormat" -> SelectorUnion(element.format.options)
    [] OTHER -> "string"

RECURSIVE ShapeEntries(_)
ShapeEntries(names) ==
  IF names = <<>> THEN ""
  ELSE Head(names) \o ": " \o ClaimedType(elements[FirstPosition(Head(names))])
       \o (IF Tail(names) = <<>> THEN "" ELSE ", " \o ShapeEntries(Tail(names)))

\* C7: the inferred shape lists every placeholder name of the top level once,
\* in the order of first occurrence, with the type of that occurrence: number
\* for a plural format, the union of the quoted selectors (string for other)
\* for a select format, string otherwise; without placeholders it is empty.
C7_ArgumentTypes ==
  inferred =>
    /\ PlaceholderNames = {} => argumentTypes = ""
    /\ PlaceholderNames # {} =>
         argumentTypes = "{ " \o ShapeEntries(NamesInOrder) \o " }"

\* the shape of a tree with a plural placeholder, a select placeholder and a
\* repeated name
C7_Witness ==
  /\ inferred
  /\ elements = <<ArgumentElement("n", PluralFormat),
                  ArgumentElement("g", SelectFormat(<<"male", "female", "other">>)),
                  ArgumentElement("n", NoFormat)>>
  /\ argumentTypes = "{ n: number, g: 'male' | 'female' | string }"

\* C8: the declaration file declares every key of the default locale with the
\* parameter getArgument infers with types: the shape of its placeholders, or
\* no parameter.
C8_DeclarationCarriesShape ==
  \A f \in IssuedByRun :
    f.file.style = "declaration" =>
      /\ DOMAIN f.file.fns = DOMAIN parsedTranslations[1].data
      /\ \A key \in DOMAIN f.file.fns :
           f.file.fns[key].param =
             getArgument(AstOf(parsedTranslations[1].asts, key), TRUE)

\* C9: a compile rejected by a translation read or by a message that does not
\* parse has not removed the output directory and has issued no write.
C9_FailFastNoOutputEffect ==
  (pc = "failed" /\ failCause \in {"read", "parse"}) =>
    /\ ~removed
    /\ IssuedByRun = {}
    /\ ByRun(LeftoverFile, 0) \in outDir

\* a compile was rejected by a message that does not parse, and the file left
\* by the earlier build is in place
C9_Witness ==
  /\ pc = "failed"
  /\ failCause = "parse"
  /\ outDir = {ByRun(LeftoverFile, 0)}

\* C10: every file a run has issued exposes exactly the keys of the merged
\* translation of the first configured locale, and a successful run has issued
\* a file for every locale.
C10_SameKeys ==
  /\ Merged => \A f \in IssuedByRun :
                 DOMAIN f.file.fns = DOMAIN parsedTranslations[1].data
  /\ (Merged /\ pc # "remove") =>
       \A n \in 1..Len(parsedTranslations) :
         \E f \in inflight \cup outDir :
           /\ f.file.LOCALE = parsedTranslations[n].locale
           /\ f.file.style = "commonjs"
           /\ DOMAIN f.file.fns = DOMAIN parsedTranslations[1].data

\* after a successful compile the module of the second locale lacks a key only
\* that locale defines and exposes a key only the first locale defines
C10_Witness ==
  /\ pc = "done"
  /\ Len(parsedTranslations) = 2
  /\ \E f \in outDir :
       /\ f.run = run
       /\ f.file.LOCALE = parsedTranslations[2].locale
       /\ \E key \in DOMAIN parsedTranslations[2].data : key \notin DOMAIN f.file.fns
       /\ \E key \in DOMAIN f.file.fns : key \notin DOMAIN parsedTranslations[2].data

====
